---- MODULE Spec2Model ----
(***************************************************************************)
(* Model of the HCI bridge: the HCI codec (hci.py), the serial transport   *)
(* wrapper (interfaces.py), the two-wire RF-PHY adapter (IUT_2wires.py),   *)
(* the Reset-hijack adapter (IUT_HCI_hack.py) and the two orchestrator     *)
(* modes (bridge.py).                                                      *)
(*                                                                         *)
(* Byte strings are sequences of octets 0..255.  Hex text (bytes.hex(),    *)
(* binascii.hexlify, the b'...' literals of the adapters) is a sequence of *)
(* hex digits 0..15, two per octet; letter case is not represented.        *)
(*                                                                         *)
(* Two configurations run: synchronous mode with the two-wire adapter      *)
(* (the only adapter with a commands_white_list) and asynchronous mode     *)
(* with the hijack adapter (the only one with a commands_black_list).      *)
(***************************************************************************)
EXTENDS Integers, Sequences, FiniteSets, TLC

VARIABLES
    mode,      \* "sync" | "async": which orchestrator runs
    stop,      \* stop_thread: the shared threading.Event
    mutex,     \* threading.Lock of asynchronous(): "free" or its holder
    pcT,       \* position of listen_tester
    pcI,       \* position of listen_iut ("none" in synchronous mode)
    cmd,       \* listen_tester local `command` (octets)
    dec,       \* listen_tester locals ocf, ogf, length, data
    event,     \* listen_tester local `event` (hex text)
    ievent,    \* listen_iut local `event` (hex text)
    devOut,    \* lines the device has sent and the bridge has not read yet
    devLog,    \* octet frames listen_tester wrote to the device since its last read
    tLog,      \* octet frames listen_tester wrote to the tester since its last read
    rLog,      \* octet frames listen_iut wrote to the tester since its last read
    nCmds,     \* nonempty tester reads so far
    nEmit,     \* device lines emitted so far
    call,      \* record of one adapter call (handler-level specification)
    pending    \* lines of devOut the device had sent when reset() wrote to it

vars == <<mode, stop, mutex, pcT, pcI, cmd, dec, event, ievent,
          devOut, devLog, tLog, rLog, nCmds, nEmit, call, pending>>

(***************************************************************************)
(* Bounds of the model.                                                    *)
(***************************************************************************)
MaxCmds == 2
MaxDevFrames == 2

(***************************************************************************)
(* Text and integer helpers.                                               *)
(***************************************************************************)
Min(a, b) == IF a < b THEN a ELSE b

\* Python s[a:b] on a 0-based sequence, clipped to the sequence.
Slice(s, a, b) == SubSeq(s, a + 1, Min(b, Len(s)))

\* bytes.hex() / binascii.hexlify: two hex digits per octet.
Hexlify(b) ==
    [i \in 1..(2 * Len(b)) |->
        IF i % 2 = 1 THEN b[(i + 1) \div 2] \div 16 ELSE b[i \div 2] % 16]

\* binascii.unhexlify on hex text of even length.
Unhexlify(h) ==
    [i \in 1..(Len(h) \div 2) |-> 16 * h[2 * i - 1] + h[2 * i]]

\* Value of a digit sequence in the given base, most significant digit first.
DigitsVal(s, base) ==
    LET n == Len(s)
        f[i \in 0..n] == IF i = 0 THEN 0 ELSE base * f[i - 1] + s[i]
    IN  f[n]

\* int(s, 16); -1 stands for the ValueError raised on the empty string.
HexInt(s) == IF s = <<>> THEN -1 ELSE DigitsVal(s, 16)

\* int(s, 2)
BinInt(s) == DigitsVal(s, 2)

\* int.from_bytes(b, byteorder='big'); 0 for the empty string.
BytesInt(b) == DigitsVal(b, 256)

\* bit i (0 = least significant) of a natural
Bit(x, i) == (x \div (2 ^ i)) % 2

\* a & b on naturals below 2^30 (the model has no larger value).
BitAnd(a, b) ==
    LET f[i \in 0..30] ==
            IF i = 0 THEN 0
            ELSE f[i - 1] + (IF Bit(a, i - 1) = 1 /\ Bit(b, i - 1) = 1 THEN 2 ^ (i - 1) ELSE 0)
    IN  f[30]

\* x.bit_length(), 1 for 0: the number of digits of format(x, 'b')
BinDigits(x) == CHOOSE n \in 1..30 : x < 2 ^ n /\ (n = 1 \/ x >= 2 ^ (n - 1))

\* f"{x:0wb}": binary digits, zero padded to at least w digits, never truncated.
FmtBin(x, w) ==
    LET n == IF BinDigits(x) >= w THEN BinDigits(x) ELSE w
    IN  [i \in 1..n |-> Bit(x, n - i)]

(***************************************************************************)
(* interfaces.py: Serial.read and Serial.write.                            *)
(***************************************************************************)
\* `lines` are the results the successive device.readline() calls return;
\* past its end readline times out and returns b''.
Serial_read(lines) ==
    IF lines = <<>> THEN [data |-> <<>>, rest |-> <<>>]
    ELSE LET line == Head(lines)
         IN  IF Len(line) > 0 /\ line[Len(line)] = 10
             THEN IF Len(lines) > 1
                  THEN [data |-> line \o lines[2], rest |-> SubSeq(lines, 3, Len(lines))]
                  ELSE [data |-> line, rest |-> <<>>]
             ELSE [data |-> line, rest |-> Tail(lines)]

\* The octets Serial.write(data) puts on the wire for hex text `data`.
Serial_write(data) == Unhexlify(data)

(***************************************************************************)
(* hci.py: the codec.  ok = FALSE stands for the ValueError of int('',16). *)
(***************************************************************************)
DecodeFault == [ok |-> FALSE, ocf |-> 0, ogf |-> 0, length |-> 0, data |-> <<>>]

parser_hci_cmd(data) ==
    LET ocf == HexInt(Slice(data, 2, 4))
        ogfRaw == HexInt(Slice(data, 4, 6))
        length == HexInt(Slice(data, 6, 8))
    IN  IF ocf = -1 \/ ogfRaw = -1 \/ length = -1 THEN DecodeFault
        ELSE [ok |-> TRUE, ocf |-> ocf, ogf |-> ogfRaw \div 4,
              length |-> length, data |-> Slice(data, 8, Len(data))]

parser_hci_acl_data(data) ==
    LET hraw == HexInt(Slice(data, 4, 6) \o Slice(data, 2, 4))
        flagRaw == HexInt(Slice(data, 4, 6))
        length == HexInt(Slice(data, 6, 8))
    IN  IF hraw = -1 \/ flagRaw = -1 \/ length = -1 THEN DecodeFault
        ELSE [ok |-> TRUE, ocf |-> BitAnd(hraw, 3839), ogf |-> flagRaw \div 16,
              length |-> length, data |-> Slice(data, 8, Len(data))]

decode_hci(data) ==
    IF HexInt(Slice(data, 0, 2)) = 1 THEN parser_hci_cmd(data)
    ELSE parser_hci_acl_data(data)

\* RFCommands.__init__: the whitelist, (OCF, OGF) -> method.
commands_white_list ==
    (<<3, 3>> :> "reset") @@ (<<30, 8>> :> "transmitter_test") @@
    (<<29, 8>> :> "receiver_test") @@ (<<31, 8>> :> "test_end") @@
    (<<52, 8>> :> "transmitter_test") @@ (<<51, 8>> :> "receiver_test") @@
    (<<80, 8>> :> "transmitter_test") @@ (<<79, 8>> :> "receiver_test")

\* BLECommands.__init__ plus IUT.__init__ of the hijack adapter.
commands_black_list == (<<3, 3>> :> "reset")

(***************************************************************************)
(* IUT_2wires.py: the two-wire adapter.  A call is computed from its       *)
(* parameter (hex text) and from `replies`, where replies[k] is what the   *)
(* k-th interface.read() of the call returns (b'' on timeout).  The result *)
(* records the hex frames passed to interface.write in order, the number   *)
(* of reads, the failure count and the returned event; ok = FALSE stands   *)
(* for an exception leaving the method.                                    *)
(***************************************************************************)
Ack == <<0, 0, 0, 0>>

NoExchange == [ok |-> TRUE, writes |-> <<>>, reads |-> 0, failed |-> 0]

HandlerFault == [ok |-> FALSE, writes |-> <<>>, reads |-> 0, failed |-> 0, event |-> <<>>]

\* Exchange with `failed = ...` in place of `failed += ...`
Exchange_lastOnly(st, v, replies) ==
    IF ~st.ok THEN st
    ELSE IF v >= 65536 THEN [st EXCEPT !.ok = FALSE]
    ELSE LET reply == Hexlify(replies[st.reads + 1])
         IN  [ok |-> TRUE,
              writes |-> Append(st.writes, Hexlify(<<v \div 256, v % 256>>)),
              reads |-> st.reads + 1,
              failed |-> IF reply # Ack THEN 1 ELSE 0]

\* Exchange that gives up the rest of the sequence once a reply was not 0000
Exchange_stopAfterMismatch(st, v, replies) ==
    IF ~st.ok \/ st.failed > 0 THEN st
    ELSE IF v >= 65536 THEN [st EXCEPT !.ok = FALSE]
    ELSE LET reply == Hexlify(replies[st.reads + 1])
         IN  [ok |-> TRUE,
              writes |-> Append(st.writes, Hexlify(<<v \div 256, v % 256>>)),
              reads |-> st.reads + 1,
              failed |-> st.failed + (IF reply # Ack THEN 1 ELSE 0)]

\* One step of a test method: v.to_bytes(length=2, byteorder='big') (which
\* raises OverflowError from 65536 on), interface.write(hexlify(frame)),
\* reply = hexlify(interface.read()), failed += 1 if reply != b'0000'.
Exchange(st, v, replies) ==
    IF ~st.ok THEN st
    ELSE IF v >= 65536 THEN [st EXCEPT !.ok = FALSE]
    ELSE LET reply == Hexlify(replies[st.reads + 1])
         IN  [ok |-> TRUE,
              writes |-> Append(st.writes, Hexlify(<<v \div 256, v % 256>>)),
              reads |-> st.reads + 1,
              failed |-> st.failed + (IF reply # Ack THEN 1 ELSE 0)]

\* status = b'00' if not failed else b'01'; return event[version] + status
Complete(st, prefix) ==
    [ok |-> st.ok, writes |-> st.writes, reads |-> st.reads, failed |-> st.failed,
     event |-> IF st.ok THEN prefix \o (IF st.failed = 0 THEN <<0, 0>> ELSE <<0, 1>>)
               ELSE <<>>]

\* twowire_reset that takes a read timeout (empty reply) for the echo
twowire_reset_timeoutIsEcho(replies) ==
    LET reply == Hexlify(replies[1])
        status == IF reply = Ack \/ reply = <<>> THEN <<0, 0>> ELSE <<1, 15>>
    IN  [ok |-> TRUE, writes |-> <<Ack>>, reads |-> 1,
         failed |-> IF reply = Ack THEN 0 ELSE 1,
         event |-> <<0, 4, 0, 14, 0, 4, 0, 1, 0, 3, 0, 12>> \o status]

\* reset(): write b'0000', one read, status b'00' iff the reply is b'0000'
twowire_reset(replies) ==
    LET reply == Hexlify(replies[1])
        status == IF reply = Ack THEN <<0, 0>> ELSE <<1, 15>>
    IN  [ok |-> TRUE, writes |-> <<Ack>>, reads |-> 1,
         failed |-> IF reply = Ack THEN 0 ELSE 1,
         event |-> <<0, 4, 0, 14, 0, 4, 0, 1, 0, 3, 0, 12>> \o status]

payload_type_map == (0 :> 0) @@ (1 :> 1) @@ (2 :> 2) @@ (4 :> 3)

\* payload_type_map.get(t, 3)
PayloadType(t) == IF t \in DOMAIN payload_type_map THEN payload_type_map[t] ELSE 3

\* int(f"00{2:06b}{phy:06b}{0:02b}", 2)
test_setup_phy(phy) ==
    BinInt(<<0, 0>> \o FmtBin(2, 6) \o FmtBin(phy, 6) \o FmtBin(0, 2))

\* int(f"00{1:06b}{(packet_length & 0xC0) >> 4:08b}", 2)
test_setup_length(packet_length) ==
    BinInt(<<0, 0>> \o FmtBin(1, 6) \o FmtBin(BitAnd(packet_length, 192) \div 16, 8))

\* int(f"10{hci_channel:06b}{packet_length & 0x3F:06b}{payload_type:02b}", 2)
tx_test_cmd(hci_channel, packet_length, payload_type) ==
    BinInt(<<1, 0>> \o FmtBin(hci_channel, 6) \o FmtBin(BitAnd(packet_length, 63), 6)
           \o FmtBin(payload_type, 2))

TxEvent(version) ==
    IF version = 1 THEN <<0, 4, 0, 14, 0, 4, 0, 1, 1, 14, 2, 0>>
    ELSE IF version = 2 THEN <<0, 4, 0, 14, 0, 4, 0, 1, 3, 4, 2, 0>>
    ELSE <<0, 4, 0, 14, 0, 4, 0, 1, 4, 15, 2, 0>>

transmitter_test(parameters, replies) ==
    LET hci_channel == HexInt(Slice(parameters, 0, 2))
        packet_length == HexInt(Slice(parameters, 2, 4))
        rawType == HexInt(Slice(parameters, 4, 6))
        version == IF Len(parameters) = 2 * 4 THEN 2
                   ELSE IF Len(parameters) > 2 * 4 THEN 3 ELSE 1
    IN  IF hci_channel = -1 \/ packet_length = -1 \/ rawType = -1 THEN HandlerFault
        ELSE LET s1 == IF version = 2
                       THEN Exchange(NoExchange,
                                     test_setup_phy(HexInt(Slice(parameters, 6, 8))),
                                     replies)
                       ELSE NoExchange
                 s2 == IF packet_length > 63
                       THEN Exchange(s1, test_setup_length(packet_length), replies)
                       ELSE s1
                 s3 == Exchange(s2, tx_test_cmd(hci_channel, packet_length,
                                                PayloadType(rawType)), replies)
             IN  Complete(s3, TxEvent(version))

\* int(f"00{3:06b}{mod_index:06b}{0:02b}", 2)
test_setup_mod(mod_index) ==
    BinInt(<<0, 0>> \o FmtBin(3, 6) \o FmtBin(mod_index, 6) \o FmtBin(0, 2))

\* int(f"01{hci_channel:06b}{0:06b}{0:02b}", 2)
rx_test_cmd(hci_channel) ==
    BinInt(<<0, 1>> \o FmtBin(hci_channel, 6) \o FmtBin(0, 6) \o FmtBin(0, 2))

RxEvent(version) ==
    IF version = 1 THEN <<0, 4, 0, 14, 0, 4, 0, 1, 1, 13, 2, 0>>
    ELSE IF version = 2 THEN <<0, 4, 0, 14, 0, 4, 0, 1, 3, 3, 2, 0>>
    ELSE <<0, 4, 0, 14, 0, 4, 0, 1, 5, 0, 2, 0>>

receiver_test(parameters, replies) ==
    LET hci_channel == HexInt(Slice(parameters, 0, 2))
        version == IF Len(parameters) = 2 * 3 THEN 2
                   ELSE IF Len(parameters) > 2 * 3 THEN 3 ELSE 1
    IN  IF hci_channel = -1 THEN HandlerFault
        ELSE LET s1 == IF version = 2
                       THEN Exchange(NoExchange,
                                     test_setup_phy(HexInt(Slice(parameters, 2, 4))),
                                     replies)
                       ELSE NoExchange
                 s2 == IF version = 2
                       THEN Exchange(s1, test_setup_mod(HexInt(Slice(parameters, 4, 6))),
                                     replies)
                       ELSE s1
                 s3 == Exchange(s2, rx_test_cmd(hci_channel), replies)
             IN  Complete(s3, RxEvent(version))

\* test_end with byteorder='big' for the packet count
test_end_bigEndianCount(replies) ==
    LET reply_int == BytesInt(replies[1])
        is_report == reply_int \div 32768
        num_packets_int == BitAnd(reply_int, 2047)
        num_packets == Hexlify(<<num_packets_int \div 256, num_packets_int % 256>>)
    IN  [ok |-> TRUE, writes |-> << <<12, 0, 0, 0>> >>, reads |-> 1,
         failed |-> IF is_report # 0 THEN 0 ELSE 1,
         event |-> IF is_report # 0
                   THEN <<0, 4, 0, 14, 0, 6, 0, 1, 1, 15, 2, 0>> \o <<0, 0>> \o num_packets
                   ELSE <<0, 4, 0, 14, 0, 4, 0, 1, 1, 15, 2, 0>> \o <<0, 1>>]

\* test_end(): write b'c000', one read, reply_int >> 15 selects the report
test_end(replies) ==
    LET reply_int == BytesInt(replies[1])
        is_report == reply_int \div 32768
        num_packets_int == BitAnd(reply_int, 2047)
        num_packets == Hexlify(<<num_packets_int % 256, num_packets_int \div 256>>)
    IN  [ok |-> TRUE, writes |-> << <<12, 0, 0, 0>> >>, reads |-> 1,
         failed |-> IF is_report # 0 THEN 0 ELSE 1,
         event |-> IF is_report # 0
                   THEN <<0, 4, 0, 14, 0, 6, 0, 1, 1, 15, 2, 0>> \o <<0, 0>> \o num_packets
                   ELSE <<0, 4, 0, 14, 0, 4, 0, 1, 1, 15, 2, 0>> \o <<0, 1>>]

(***************************************************************************)
(* IUT_HCI_hack.py: the hijack adapter's reset.                            *)
(***************************************************************************)
\* b'01030C00', the frame reset() passes to interface.write
HackResetFrame == <<0, 1, 0, 3, 0, 12, 0, 0>>

\* reply = list(reply.hex()); reply[7] = "5"; IndexError when the hex text
\* has fewer than 8 characters.
hack_patch(reply) ==
    LET h == Hexlify(reply)
    IN  IF Len(h) < 8 THEN [ok |-> FALSE, event |-> <<>>]
        ELSE [ok |-> TRUE, event |-> [h EXCEPT ![8] = 5]]

hack_reset(replies) ==
    LET p == hack_patch(replies[1])
    IN  [ok |-> p.ok, writes |-> <<HackResetFrame>>, reads |-> 1, failed |-> 0,
         event |-> p.event]

(***************************************************************************)
(* bridge.py: `ble_cmd(data) if length > 0 else ble_cmd()`.  reset and     *)
(* test_end take no argument, the two test methods take one; the wrong     *)
(* number of arguments raises TypeError before the method runs.            *)
(***************************************************************************)
TakesParameters(name) == name \in {"transmitter_test", "receiver_test"}

Invoke(name, length, data, replies) ==
    IF (length > 0) # TakesParameters(name) THEN HandlerFault
    ELSE IF name = "reset" THEN twowire_reset(replies)
    ELSE IF name = "transmitter_test" THEN transmitter_test(data, replies)
    ELSE IF name = "receiver_test" THEN receiver_test(data, replies)
    ELSE test_end(replies)

(***************************************************************************)
(* The environment: what the tester and the device put on the two serial   *)
(* lines.  Each value is one result of device.readline().                  *)
(***************************************************************************)
\* Synchronous mode, two-wire adapter: the eight intercepted opcodes with
\* good and bad parameters, an unmatched opcode, a non-Command frame, a
\* truncated frame, a frame that readline splits at an 0x0a octet, and the
\* v3 transmitter and receiver test.
SyncLines ==
    { <<1, 3, 12, 0>>, <<1, 3, 12, 1, 0>>,
      <<1, 30, 32, 3, 39, 37, 0>>, <<1, 52, 32, 4, 39, 64, 4, 1>>,
      <<1, 30, 32, 3, 64, 0, 0>>, <<1, 30, 32, 0>>,
      <<1, 29, 32, 1, 39>>, <<1, 51, 32, 3, 39, 1, 1>>,
      <<1, 31, 32, 0>>, <<1, 5, 32, 0>>, <<2, 3, 48, 0>>, <<1, 3>>,
      <<1, 30, 32, 3, 10>>, <<37, 0>>,
      <<1, 80, 32, 5, 39, 37, 0, 1, 1>>, <<1, 79, 32, 4, 39, 1, 1, 0>> }

\* Asynchronous mode, hijack adapter: Reset, Reset with a parameter, a
\* second Command frame and an ACLData frame that decode to (3, 3), frames
\* that are not intercepted, a frame readline splits, a truncated frame.
AsyncLines ==
    { <<1, 3, 12, 0>>, <<1, 3, 12, 1, 0>>, <<1, 3, 13, 0>>,
      <<2, 3, 48, 0>>, <<2, 1, 0, 1, 170>>, <<1, 5, 32, 0>>,
      <<2, 1, 0, 2, 10>>, <<1, 5, 32>> }

TesterLines == IF mode = "sync" THEN SyncLines ELSE AsyncLines

EndsLine(l) == Len(l) > 0 /\ l[Len(l)] = 10

\* What the readline() calls of one tester.read() can return: a timeout,
\* one line, or a line ending in 0x0a followed by the next line.
TesterInput ==
    { <<>> } \cup { <<l>> : l \in TesterLines }
    \cup { <<l1, l2>> : l1 \in { l \in TesterLines : EndsLine(l) }, l2 \in TesterLines }

\* Replies of the two-wire device to one frame: timeout, acknowledgement,
\* a reply that is not the acknowledgement, a test report.
TwoWireReplies == { <<>>, <<0, 0>>, <<0, 1>>, <<128, 5>> }

\* Frames of the HCI device: the Reset Command Complete, a truncated event,
\* another event.
HackReplies == { <<4, 14, 4, 1, 3, 12, 0>>, <<4, 14, 4>>, <<4, 15, 4, 0, 1, 5, 32>> }

\* replies[k] for the at most three reads of one adapter call
ReplySeqs(R) == [1..3 -> R]

NoCall == [name |-> "none", params |-> <<>>, replies |-> <<>>, res |-> HandlerFault]

NoDecode == [ok |-> TRUE, ocf |-> 0, ogf |-> 0, length |-> 0, data |-> <<>>]

(***************************************************************************)
(* bridge.py: the orchestrator.                                            *)
(***************************************************************************)
Init ==
    /\ mode \in {"sync", "async"}
    /\ stop = FALSE
    /\ mutex = "free"
    /\ pcT = "t_top"
    /\ pcI = IF mode = "async" THEN "i_top" ELSE "none"
    /\ cmd = <<>>
    /\ dec = NoDecode
    /\ event = <<>>
    /\ ievent = <<>>
    /\ devOut = <<>>
    /\ devLog = <<>>
    /\ tLog = <<>>
    /\ rLog = <<>>
    /\ nCmds = 0
    /\ nEmit = 0
    /\ call = NoCall
    /\ pending = 0

\* `while not stop.is_set():` of listen_tester, both modes
T_top ==
    /\ pcT = "t_top"
    /\ pcT' = IF stop THEN "done" ELSE "t_read"
    /\ UNCHANGED <<mode, stop, mutex, pcI, cmd, dec, event, ievent,
                   devOut, devLog, tLog, rLog, nCmds, nEmit, call, pending>>

\* `command = tester.read()` and `if len(command) > 0`.  The per-iteration
\* logs start again and the locals of the previous iteration, which the
\* code overwrites before it uses them, are cleared.
T_read ==
    /\ pcT = "t_read"
    /\ \E lines \in TesterInput :
         LET command == Serial_read(lines).data
         IN  /\ Len(command) > 0 => nCmds < MaxCmds
             /\ cmd' = command
             /\ nCmds' = IF Len(command) > 0 THEN nCmds + 1 ELSE nCmds
             /\ pcT' = IF Len(command) > 0 THEN "t_decode" ELSE "t_top"
    /\ dec' = NoDecode
    /\ event' = <<>>
    /\ devLog' = <<>>
    /\ tLog' = <<>>
    /\ pending' = 0
    /\ UNCHANGED <<mode, stop, mutex, pcI, ievent, devOut, rLog, nEmit, call>>

\* T_decode_sync without the `if command[0] == 1` test
T_decode_sync_anyFrame ==
    /\ pcT = "t_decode"
    /\ mode = "sync"
    /\ \E hex \in { Hexlify(cmd) } : \E d \in { decode_hci(hex) } :
           /\ dec' = d
           /\ pcT' = IF ~d.ok THEN "dead"
                     ELSE IF <<d.ocf, d.ogf>> \in DOMAIN commands_white_list
                          THEN "t_handler" ELSE "t_top"
    /\ UNCHANGED <<mode, stop, mutex, pcI, cmd, event, ievent,
                   devOut, devLog, tLog, rLog, nCmds, nEmit, call, pending>>

\* synchronous.listen_tester: decode (Command frames only) and whitelist lookup
T_decode_sync ==
    /\ pcT = "t_decode"
    /\ mode = "sync"
    /\ \E hex \in { Hexlify(cmd) } :
       \E d \in { IF cmd[1] = 1 THEN decode_hci(hex) ELSE NoDecode } :
           /\ dec' = d
           /\ pcT' = IF ~d.ok THEN "dead"
                     ELSE IF <<d.ocf, d.ogf>> \in DOMAIN commands_white_list
                          THEN "t_handler" ELSE "t_top"
    /\ UNCHANGED <<mode, stop, mutex, pcI, cmd, event, ievent,
                   devOut, devLog, tLog, rLog, nCmds, nEmit, call, pending>>

\* synchronous.listen_tester: `event = ble_cmd(data) if length > 0 else ble_cmd()`,
\* the whole adapter call with the device's replies to it
T_handler ==
    /\ pcT = "t_handler"
    /\ mode = "sync"
    /\ \E replies \in ReplySeqs(TwoWireReplies) :
         \E r \in { Invoke(commands_white_list[<<dec.ocf, dec.ogf>>],
                            dec.length, dec.data, replies) } :
             /\ devLog' = devLog \o [i \in 1..Len(r.writes) |-> Serial_write(r.writes[i])]
             /\ event' = r.event
             /\ pcT' = IF r.ok THEN "t_write" ELSE "dead"
    /\ UNCHANGED <<mode, stop, mutex, pcI, cmd, dec, ievent,
                   devOut, tLog, rLog, nCmds, nEmit, call, pending>>

\* `tester.write(event)` of listen_tester, both modes
T_write ==
    /\ pcT = "t_write"
    /\ tLog' = Append(tLog, Serial_write(event))
    /\ pcT' = IF mode = "async" THEN "t_release" ELSE "t_top"
    /\ UNCHANGED <<mode, stop, mutex, pcI, cmd, dec, event, ievent,
                   devOut, devLog, rLog, nCmds, nEmit, call, pending>>

\* asynchronous.listen_tester: decode (every frame) and blacklist lookup
T_decode_async ==
    /\ pcT = "t_decode"
    /\ mode = "async"
    /\ \E hex \in { Hexlify(cmd) } : \E d \in { decode_hci(hex) } :
           /\ dec' = d
           /\ pcT' = IF ~d.ok THEN "dead"
                     ELSE IF <<d.ocf, d.ogf>> \in DOMAIN commands_black_list
                          THEN "t_acquire" ELSE "t_forward"
    /\ UNCHANGED <<mode, stop, mutex, pcI, cmd, event, ievent,
                   devOut, devLog, tLog, rLog, nCmds, nEmit, call, pending>>

\* asynchronous.listen_tester: `iut.interface.write(binascii.hexlify(command))`
T_forward ==
    /\ pcT = "t_forward"
    /\ devLog' = Append(devLog, Serial_write(Hexlify(cmd)))
    /\ pcT' = "t_top"
    /\ UNCHANGED <<mode, stop, mutex, pcI, cmd, dec, event, ievent,
                   devOut, tLog, rLog, nCmds, nEmit, call, pending>>

\* T_acquire that does not wait for the lock to be free
T_acquire_noWait ==
    /\ pcT = "t_acquire"
    /\ mutex' = "tester"
    /\ pcT' = "h_write"
    /\ UNCHANGED <<mode, stop, pcI, cmd, dec, event, ievent,
                   devOut, devLog, tLog, rLog, nCmds, nEmit, call, pending>>

\* asynchronous.listen_tester: `mutex.acquire()`
T_acquire ==
    /\ pcT = "t_acquire"
    /\ mutex = "free"
    /\ mutex' = "tester"
    /\ pcT' = "h_write"
    /\ UNCHANGED <<mode, stop, pcI, cmd, dec, event, ievent,
                   devOut, devLog, tLog, rLog, nCmds, nEmit, call, pending>>

\* asynchronous.listen_tester: the call of the override (TypeError when the
\* declared length is nonzero) up to reset()'s interface.write
T_hack_write ==
    /\ pcT = "h_write"
    /\ IF (dec.length > 0) # TakesParameters(commands_black_list[<<dec.ocf, dec.ogf>>])
       THEN /\ pcT' = "dead"
            /\ UNCHANGED <<devLog, pending>>
       ELSE /\ devLog' = Append(devLog, Serial_write(HackResetFrame))
            /\ pending' = Len(devOut)
            /\ pcT' = "h_read"
    /\ UNCHANGED <<mode, stop, mutex, pcI, cmd, dec, event, ievent,
                   devOut, tLog, rLog, nCmds, nEmit, call>>

\* reset() of the hijack adapter from interface.read() to its return
T_hack_read ==
    /\ pcT = "h_read"
    /\ LET r == Serial_read(devOut)
           p == hack_patch(r.data)
       IN  /\ devOut' = r.rest
           /\ event' = p.event
           /\ pcT' = IF p.ok THEN "t_write" ELSE "dead"
    /\ UNCHANGED <<mode, stop, mutex, pcI, cmd, dec, ievent,
                   devLog, tLog, rLog, nCmds, nEmit, call, pending>>

\* asynchronous.listen_tester: `mutex.release()`
T_release ==
    /\ pcT = "t_release"
    /\ mutex' = "free"
    /\ pcT' = "t_top"
    /\ UNCHANGED <<mode, stop, pcI, cmd, dec, event, ievent,
                   devOut, devLog, tLog, rLog, nCmds, nEmit, call, pending>>

\* `while not stop.is_set():` of listen_iut
I_top ==
    /\ pcI = "i_top"
    /\ pcI' = IF stop THEN "done" ELSE "i_acquire"
    /\ UNCHANGED <<mode, stop, mutex, pcT, cmd, dec, event, ievent,
                   devOut, devLog, tLog, rLog, nCmds, nEmit, call, pending>>

\* I_acquire that does not wait for the lock to be free
I_acquire_noWait ==
    /\ pcI = "i_acquire"
    /\ mutex' = "iut"
    /\ pcI' = "i_read"
    /\ UNCHANGED <<mode, stop, pcT, cmd, dec, event, ievent,
                   devOut, devLog, tLog, rLog, nCmds, nEmit, call, pending>>

\* listen_iut: `mutex.acquire()`
I_acquire ==
    /\ pcI = "i_acquire"
    /\ mutex = "free"
    /\ mutex' = "iut"
    /\ pcI' = "i_read"
    /\ UNCHANGED <<mode, stop, pcT, cmd, dec, event, ievent,
                   devOut, devLog, tLog, rLog, nCmds, nEmit, call, pending>>

\* listen_iut: `event = binascii.hexlify(iut.interface.read())`, `if len(event) > 0`
I_read ==
    /\ pcI = "i_read"
    /\ LET r == Serial_read(devOut)
       IN  /\ devOut' = r.rest
           /\ ievent' = Hexlify(r.data)
           /\ pcI' = IF Len(Hexlify(r.data)) > 0 THEN "i_fwd" ELSE "i_release"
    /\ rLog' = <<>>
    /\ UNCHANGED <<mode, stop, mutex, pcT, cmd, dec, event,
                   devLog, tLog, nCmds, nEmit, call, pending>>

\* listen_iut: `tester.write(event)`
I_fwd ==
    /\ pcI = "i_fwd"
    /\ rLog' = Append(rLog, Serial_write(ievent))
    /\ pcI' = "i_release"
    /\ UNCHANGED <<mode, stop, mutex, pcT, cmd, dec, event, ievent,
                   devOut, devLog, tLog, nCmds, nEmit, call, pending>>

\* I_release with the release inside `if len(event) > 0`
I_release_onlyOnEvent ==
    /\ pcI = "i_release"
    /\ mutex' = IF Len(ievent) > 0 THEN "free" ELSE mutex
    /\ pcI' = "i_sleep"
    /\ UNCHANGED <<mode, stop, pcT, cmd, dec, event, ievent,
                   devOut, devLog, tLog, rLog, nCmds, nEmit, call, pending>>

\* listen_iut: `mutex.release()`
I_release ==
    /\ pcI = "i_release"
    /\ mutex' = "free"
    /\ pcI' = "i_sleep"
    /\ UNCHANGED <<mode, stop, pcT, cmd, dec, event, ievent,
                   devOut, devLog, tLog, rLog, nCmds, nEmit, call, pending>>

\* listen_iut: `time.sleep(iut_config["timeout"] / 1000000)`
I_sleep ==
    /\ pcI = "i_sleep"
    /\ pcI' = "i_top"
    /\ UNCHANGED <<mode, stop, mutex, pcT, cmd, dec, event, ievent,
                   devOut, devLog, tLog, rLog, nCmds, nEmit, call, pending>>

\* the foreground of both modes: `stop_thread.set()` after the quit sentinel
Stop ==
    /\ pcT # "idle"
    /\ ~stop
    /\ stop' = TRUE
    /\ UNCHANGED <<mode, mutex, pcT, pcI, cmd, dec, event, ievent,
                   devOut, devLog, tLog, rLog, nCmds, nEmit, call, pending>>

\* the HCI device puts a frame on its serial line (asynchronous mode)
DeviceEmit ==
    /\ mode = "async"
    /\ pcT # "idle"
    /\ nEmit < MaxDevFrames
    /\ \E f \in HackReplies : devOut' = Append(devOut, f)
    /\ nEmit' = nEmit + 1
    /\ UNCHANGED <<mode, stop, mutex, pcT, pcI, cmd, dec, event, ievent,
                   devLog, tLog, rLog, nCmds, call, pending>>

TesterNext ==
    \/ T_top \/ T_read \/ T_decode_sync \/ T_handler \/ T_write
    \/ T_decode_async \/ T_forward \/ T_acquire \/ T_hack_write \/ T_hack_read
    \/ T_release

IutNext ==
    \/ I_top \/ I_acquire \/ I_read \/ I_fwd \/ I_release \/ I_sleep

Next == TesterNext \/ IutNext \/ Stop \/ DeviceEmit

Spec == Init /\ [][Next]_vars

\* the steps of asynchronous.listen_tester
AsyncTesterNext ==
    \/ T_top \/ T_read \/ T_decode_async \/ T_forward \/ T_acquire
    \/ T_hack_write \/ T_hack_read \/ T_write \/ T_release

\* Asynchronous mode alone
AsyncInit == Init /\ mode = "async"

AsyncNext == AsyncTesterNext \/ IutNext \/ Stop \/ DeviceEmit

AsyncSpec == AsyncInit /\ [][AsyncNext]_vars

\* The scheduling the two threads of asynchronous mode get: each thread
\* keeps running, and a thread blocked in mutex.acquire() gets the lock,
\* because listen_iut sleeps after every release.
LiveSpec ==
    AsyncSpec /\ WF_vars(AsyncTesterNext) /\ WF_vars(IutNext) /\ SF_vars(T_acquire)

(***************************************************************************)
(* Handler-level specification: one adapter call on inputs drawn from      *)
(* bounded sets.                                                           *)
(***************************************************************************)
TxChannels == {0, 39, 63, 64}
TxLengths == {0, 37, 63, 64, 255}
TxTypes == {0, 1, 2, 3, 4, 5}
TxPhys == {1, 2}

TxParams ==
    { Hexlify(<<c, l, t>>) : c \in TxChannels, l \in TxLengths, t \in TxTypes }
    \cup { Hexlify(<<c, l, t, y>>) : c \in TxChannels, l \in TxLengths,
                                     t \in {0, 4, 5}, y \in TxPhys }
    \cup { Hexlify(<<39, 37, 0, 1, 1>>), Hexlify(<<39, 37>>), <<>> }

RxParams ==
    { Hexlify(<<c>>) : c \in {0, 39, 64, 128} }
    \cup { Hexlify(<<c, y, m>>) : c \in {0, 39, 128}, y \in TxPhys, m \in {0, 1, 2} }
    \cup { Hexlify(<<39, 1>>), Hexlify(<<39, 1, 1, 0>>), <<>> }

InitH ==
    /\ mode = "sync"
    /\ stop = FALSE
    /\ mutex = "free"
    /\ pcT = "idle"
    /\ pcI = "none"
    /\ cmd = <<>>
    /\ dec = NoDecode
    /\ event = <<>>
    /\ ievent = <<>>
    /\ devOut = <<>>
    /\ devLog = <<>>
    /\ tLog = <<>>
    /\ rLog = <<>>
    /\ nCmds = 0
    /\ nEmit = 0
    /\ call = NoCall
    /\ pending = 0

\* One call per behaviour: the adapter keeps no state between calls.
CanCall == pcT = "idle" /\ call = NoCall

Call(name, params, replies, res) ==
    /\ call' = [name |-> name, params |-> params, replies |-> replies, res |-> res]
    /\ UNCHANGED <<mode, stop, mutex, pcT, pcI, cmd, dec, event, ievent,
                   devOut, devLog, tLog, rLog, nCmds, nEmit, pending>>

Call_reset ==
    /\ CanCall
    /\ \E r \in ReplySeqs(TwoWireReplies) : Call("reset", <<>>, r, twowire_reset(r))

Call_transmitter_test ==
    /\ CanCall
    /\ \E p \in TxParams, r \in ReplySeqs(TwoWireReplies) :
           Call("transmitter_test", p, r, transmitter_test(p, r))

Call_receiver_test ==
    /\ CanCall
    /\ \E p \in RxParams, r \in ReplySeqs(TwoWireReplies) :
           Call("receiver_test", p, r, receiver_test(p, r))

Call_test_end ==
    /\ CanCall
    /\ \E r \in ReplySeqs(TwoWireReplies \cup { <<135, 255>>, <<128>>, <<1, 128, 5>> }) :
           Call("test_end", <<>>, r, test_end(r))

Call_hack_reset ==
    /\ CanCall
    /\ \E r \in ReplySeqs(HackReplies \cup { <<>>, <<4, 14, 4, 5>> }) :
           Call("hack_reset", <<>>, r, hack_reset(r))

\* Frames given to decode_hci: both indicators, with every bit position of
\* octets 2 and 3 set in some frame, and payloads of zero, one and two octets.
DecodeFrames ==
    { <<k, a, b>> \o t : k \in {1, 2}, a \in {0, 3, 35, 255},
                         b \in {0, 1, 12, 32, 33, 47, 252},
                         t \in { <<0>>, <<1, 170>>, <<2, 1, 2>> } }

Call_decode_hci ==
    /\ CanCall
    /\ \E f \in DecodeFrames :
           Call("decode_hci", Hexlify(f), <<>>, decode_hci(Hexlify(f)))

NextH ==
    \/ Call_reset \/ Call_transmitter_test \/ Call_receiver_test
    \/ Call_test_end \/ Call_hack_reset \/ Call_decode_hci

SpecH == InitH /\ [][NextH]_vars

(***************************************************************************)
(* Properties.                                                             *)
(***************************************************************************)
\* listen_tester is inside an override-handler invocation: after
\* mutex.acquire() and up to the tester.write of the returned event
InHandler == pcT \in {"h_write", "h_read", "t_write"}

\* listen_iut takes a relay step: the device read or the forward to the tester
RelayStep == pcI \in {"i_read", "i_fwd"} /\ pcI' # pcI

\* The iteration of listen_tester that read `cmd` is over: the listener is
\* back at the loop test, about to read again, or has ended.
IterationOver == pcT \in {"t_top", "t_read", "done", "dead"}

\* Key of a frame read straight from its octets
RawKey(c) ==
    IF c[1] = 1 THEN <<c[2], c[3] \div 4>>
    ELSE <<BitAnd(256 * c[3] + c[2], 3839), c[3] \div 16>>

DispatchTable == IF mode = "sync" THEN commands_white_list ELSE commands_black_list

\* C1: in asynchronous mode no relay step (device read or forward) is taken
\* while listen_tester is inside an override-handler invocation, between
\* the handler's device write and its device read in particular.
C1_NoRelayInsideHandler == [][InHandler => ~RelayStep]_vars

\* the handler has written Reset and not read the reply yet, the relay waits
C1_Witness == mode = "async" /\ pcT = "h_read" /\ pcI = "i_acquire"

\* C2 as stated: every listener about to read or write the device transport
\* (relay read, handler write/read, raw forwarding) holds the lock.
C2_AllDeviceAccessLocked ==
    /\ pcT \in {"h_write", "h_read", "t_forward"} => mutex = "tester"
    /\ pcI = "i_read" => mutex = "iut"

\* C2 amended: the relay read and the override handler's write and read are
\* made under the lock; the raw forwarding is not.
C2_HandlerAndRelayLocked ==
    /\ pcT \in {"h_write", "h_read"} => mutex = "tester"
    /\ pcI = "i_read" => mutex = "iut"
    /\ pcT = "t_forward" => mutex # "tester"

\* a raw forward is about to write the device while the relay, holding the
\* lock, is about to read it
C2_Witness == pcT = "t_forward" /\ pcI = "i_read" /\ mutex = "iut"

\* C3: a listener never ends because of a fault.
C3_NoListenerEndsOnFault == pcT # "dead" /\ pcI # "dead"

\* C4: when the iteration that read a Command frame with a key of the
\* dispatch table in use is over, listen_tester has written exactly one
\* frame to the tester, and never more than one.
C4_OneEventPerCommand ==
    (Len(cmd) >= 4 /\ cmd[1] = 1 /\ RawKey(cmd) \in DOMAIN DispatchTable)
        => /\ Len(tLog) <= 1
           /\ IterationOver => Len(tLog) = 1

\* C5: under fair scheduling, listen_tester waiting for the lock with an
\* intercepted command gets it and writes the answer, unless a fault ends it.
C5_NoStarvation == (pcT = "t_acquire") ~> (pcT = "t_release" \/ pcT = "dead")

\* listen_tester waits in acquire while the relay holds the lock
C5_Witness == pcT = "t_acquire" /\ mutex = "iut"

\* C6: once the stop flag is set, a listener that has ended does not hold
\* the lock.
C6_EndsWithoutLock ==
    stop => /\ pcT \in {"done", "dead"} => mutex # "tester"
            /\ pcI \in {"done", "dead"} => mutex # "iut"

\* a tester frame that is empty, not a Command frame, or carries a key
\* outside the whitelist
Unmatched(c) ==
    \/ c = <<>>
    \/ c[1] # 1
    \/ Len(c) >= 3 /\ RawKey(c) \notin DOMAIN commands_white_list

\* C7: in synchronous mode a tester frame that is empty, is not a Command
\* frame or has a key outside the whitelist causes no device write and no
\* tester write.
C7_UnmatchedDropped ==
    (mode = "sync" /\ Unmatched(cmd)) => (devLog = <<>> /\ tLog = <<>>)

\* the iteration for an ACLData frame whose fields read (3, 3) is over
C7_Witness == mode = "sync" /\ cmd = <<2, 3, 48, 0>> /\ pcT = "t_top"

\* C8: in asynchronous mode, when the iteration for a nonempty frame whose
\* key is not in the blacklist is over, exactly that frame was written to
\* the device and nothing was written to the tester by listen_tester.
C8_ForwardedVerbatim ==
    (mode = "async" /\ Len(cmd) >= 3 /\ RawKey(cmd) \notin DOMAIN commands_black_list
        /\ IterationOver)
        => (devLog = <<cmd>> /\ tLog = <<>>)

\* first octet of a two-wire frame: 2-bit opcode and 6-bit control code
FirstOctet(h) == Unhexlify(h)[1]
IsPhySetup(h) == FirstOctet(h) = 2
IsLengthSetup(h) == FirstOctet(h) = 1
IsTestStart(h) == FirstOctet(h) \in 128..191

\* status byte: the last two hex digits of an event
Status(e) == SubSeq(e, Len(e) - 1, Len(e))

AckBytes == <<0, 0>>

C10_V1OneTestStart ==
    (call.name = "transmitter_test" /\ Len(call.params) = 6)
        => LET w == call.res.writes
               long == Unhexlify(call.params)[2] >= 64
           IN  /\ call.res.ok
               /\ SubSeq(Unhexlify(call.res.event), 5, 6) = <<30, 32>>
               /\ Cardinality({i \in 1..Len(w) : IsTestStart(w[i])}) = 1
               /\ ~long => (Len(w) = 1 /\ call.res.reads = 1)
               /\ long => (Len(w) = 2 /\ IsLengthSetup(w[1]) /\ IsTestStart(w[2])
                           /\ call.res.reads = 2)

\* the parameter's channel fits the 6-bit field of the test frame
\* (receiver_test: the 16-bit frame) and the parameter has the octets the
\* method reads
TxFits(p) == Len(p) >= 6 /\ Unhexlify(p)[1] <= 63
RxFits(p) == Len(p) >= 2 /\ Unhexlify(p)[1] <= 127

\* number of frames the parameter selects
TxFrameCount(p) ==
    (IF Len(p) = 8 THEN 1 ELSE 0) + (IF Unhexlify(p)[2] > 63 THEN 1 ELSE 0) + 1
RxFrameCount(p) == IF Len(p) = 6 THEN 3 ELSE 1

\* C11: in transmitter_test and receiver_test every frame the parameter
\* selects is written and answered by one read whatever the replies were,
\* and the status is 00 iff every frame written was answered with exactly
\* 0000, else 01; an empty reply is a mismatch.
C11_MismatchNeverAborts ==
    /\ (call.name = "transmitter_test" /\ TxFits(call.params))
        => LET n == TxFrameCount(call.params)
           IN  /\ call.res.ok
               /\ Len(call.res.writes) = n
               /\ call.res.reads = n
               /\ Status(call.res.event) =
                      IF \A i \in 1..n : call.replies[i] = AckBytes
                      THEN <<0, 0>> ELSE <<0, 1>>
    /\ (call.name = "receiver_test" /\ RxFits(call.params))
        => LET n == RxFrameCount(call.params)
           IN  /\ call.res.ok
               /\ Len(call.res.writes) = n
               /\ call.res.reads = n
               /\ Status(call.res.event) =
                      IF \A i \in 1..n : call.replies[i] = AckBytes
                      THEN <<0, 0>> ELSE <<0, 1>>

\* a three-frame receiver test whose first read timed out and whose other
\* two frames were acknowledged
C11_Witness ==
    /\ call.name = "receiver_test"
    /\ Len(call.res.writes) = 3
    /\ call.replies[1] = <<>>
    /\ call.replies[2] = AckBytes
    /\ call.replies[3] = AckBytes
    /\ Status(call.res.event) = <<0, 1>>

\* C12: two-wire reset writes the one frame 0000, reads one reply and
\* returns the Reset Command Complete with status 00 iff the reply is
\* exactly 0000 and 1f for every other reply, the empty one included.
C12_ResetStatus ==
    call.name = "reset"
        => /\ call.res.ok
           /\ call.res.writes = << Hexlify(<<0, 0>>) >>
           /\ call.res.reads = 1
           /\ Unhexlify(call.res.event) =
                  <<4, 14, 4, 1, 3, 12>>
                  \o (IF call.replies[1] = AckBytes THEN <<0>> ELSE <<31>>)

\* a reset whose read timed out
C12_Witness ==
    /\ call.name = "reset"
    /\ call.replies[1] = <<>>
    /\ Status(call.res.event) = <<1, 15>>

\* C13: test_end writes the termination frame c000, reads one reply (the
\* two-wire reply of at most two octets) and takes it as a big-endian
\* integer: bit 15 set gives the 6-byte-body event with status 00 and the
\* low 11 bits as a little-endian 2-octet count; bit 15 clear, the empty
\* reply included, gives the 4-byte-body event with status 01.
C13_TestEndReport ==
    (call.name = "test_end" /\ Len(call.replies[1]) <= 2)
        => LET v == BytesInt(call.replies[1])
               count == v % 2048
           IN  /\ call.res.ok
               /\ call.res.writes = << Hexlify(<<192, 0>>) >>
               /\ call.res.reads = 1
               /\ Unhexlify(call.res.event) =
                      IF Bit(v, 15) = 1
                      THEN <<4, 14, 6, 1, 31, 32, 0, count % 256, count \div 256>>
                      ELSE <<4, 14, 4, 1, 31, 32, 1>>

\* a report of 0x7ff packets
C13_Witness ==
    /\ call.name = "test_end"
    /\ call.replies[1] = <<135, 255>>
    /\ Unhexlify(call.res.event) = <<4, 14, 6, 1, 31, 32, 0, 255, 7>>

\* A Command frame and an ACLData frame built from their fields: OGF in the
\* upper six bits of octet 3; the 12-bit handle in octet 2 and the low
\* nibble of octet 3, pbBcFlag in the high nibble.
BuildCommand(ocf, ogf, length, payload) == <<1, ocf, 4 * ogf, length>> \o payload
BuildACL(handle, flag, length, payload) ==
    <<2, handle % 256, 16 * flag + handle \div 256, length>> \o payload

\* C14: decode of a Command frame built from (ocf, ogf, length, payload)
\* returns those four fields, and decode of an ACLData frame built from a
\* 12-bit handle, a pbBcFlag, a length and a payload returns those four.
C14_DecodeRoundTrip ==
    call.name = "decode_hci"
        => \A t \in { <<0>>, <<1, 170>>, <<2, 1, 2>> } :
               /\ \A ocf \in {0, 3, 35, 255}, ogf \in {0, 3, 8, 63} :
                      call.params = Hexlify(BuildCommand(ocf, ogf, Head(t), Tail(t)))
                          => call.res = [ok |-> TRUE, ocf |-> ocf, ogf |-> ogf,
                                         length |-> Head(t), data |-> Hexlify(Tail(t))]
               /\ \A handle \in {0, 35, 255, 256, 291, 3840, 4095}, flag \in {0, 2, 3} :
                      call.params = Hexlify(BuildACL(handle, flag, Head(t), Tail(t)))
                          => call.res = [ok |-> TRUE, ocf |-> handle, ogf |-> flag,
                                         length |-> Head(t), data |-> Hexlify(Tail(t))]

\* C15: for any device reply the frame hijack reset returns has the length
\* of the reply's hex form and differs from it in exactly one character, the
\* one at index 7.
C15_ExactlyOneCharPatched ==
    call.name = "hack_reset"
        => LET h == Hexlify(call.replies[1])
               e == call.res.event
           IN  /\ call.res.ok
               /\ Len(e) = Len(h)
               /\ {i \in 1..Len(h) : e[i] # h[i]} = {8}

\* C16: once the Reset override has written to the device, what it wrote is
\* exactly the tester command that was dispatched to it.
C16_ResetWritesTesterCommand ==
    (mode = "async" /\ pcT \in {"h_read", "t_write", "t_release"})
        => devLog = <<cmd>>

\* C17: for every channel, length and packet-type octet the last frame
\* transmitter_test writes is the two-octet test-start frame 10b, channel
\* (6 bits), packetLength mod 64 (6 bits), remapped type (2 bits).
C17_TestStartBits ==
    (call.name = "transmitter_test" /\ Len(call.params) >= 6)
        => LET o == Unhexlify(call.params)
               w == call.res.writes
               type == IF o[3] \in {0, 1, 2} THEN o[3] ELSE 3
           IN  /\ Len(w) >= 1
               /\ Len(w[Len(w)]) = 4
               /\ BytesInt(Unhexlify(w[Len(w)]))
                      = 32768 + 256 * o[1] + 4 * (o[2] % 64) + type

IsModSetup(h) == FirstOctet(h) = 3
IsRxTest(h) == FirstOctet(h) \in 64..127

\* completion opcode of an event: octets 5 and 6
EventOpcode(e) == SubSeq(Unhexlify(e), 5, 6)

\* C18: a 3-octet parameter makes receiver_test write PHY setup, modulation
\* index setup and the receiver-test command, one read after each, and
\* return the v2 completion code (33 20); a shorter parameter makes it write
\* the receiver-test command alone and return the v1 code (1d 20).
C18_RxSequence ==
    (call.name = "receiver_test" /\ Len(call.params) \in {2, 4, 6})
        => LET w == call.res.writes
           IN  /\ call.res.ok
               /\ call.res.reads = Len(w)
               /\ IF Len(call.params) = 6
                  THEN /\ Len(w) = 3
                       /\ IsPhySetup(w[1]) /\ IsModSetup(w[2]) /\ IsRxTest(w[3])
                       /\ EventOpcode(call.res.event) = <<51, 32>>
                  ELSE /\ Len(w) = 1
                       /\ IsRxTest(w[1])
                       /\ EventOpcode(call.res.event) = <<29, 32>>

\* C19: in synchronous mode the event written to the tester for a command
\* with a whitelist key carries that command's OCF in its opcode.
C19_EventEchoesOpcode ==
    (mode = "sync" /\ Len(cmd) >= 4 /\ cmd[1] = 1
        /\ RawKey(cmd) \in DOMAIN commands_white_list /\ Len(tLog) = 1)
        => tLog[1][5] = cmd[2]

\* C20: in asynchronous mode the lock is free or held by a listener that is
\* running between its acquire and its release.
C20_LockNeverLeaked ==
    /\ mutex = "tester" => pcT \in {"h_write", "h_read", "t_write", "t_release"}
    /\ mutex = "iut" => pcI \in {"i_read", "i_fwd", "i_release"}

\* C21: in asynchronous mode a tester frame whose first octet is not 0x01 is
\* never dispatched to an override handler, and when its iteration is over
\* exactly that frame was written to the device.
C21_OnlyCommandsIntercepted ==
    (mode = "async" /\ Len(cmd) > 0 /\ cmd[1] # 1)
        => /\ pcT \notin {"t_acquire", "h_write", "h_read", "t_write", "t_release"}
           /\ IterationOver => (devLog = <<cmd>> /\ tLog = <<>>)

\* C22: the line the hijack reset handler reads, patches and returns was
\* sent by the device after the handler wrote Reset: no line the device had
\* sent before the write is consumed by the handler (such a line is left to
\* the relay).
C22_HandlerReadsOwnReply ==
    [][(pcT = "h_read" /\ pcT' = "t_write") => pending = 0]_vars

====
